---- MODULE Spec2Model ----
(***************************************************************************)
(* A model of jogger.py: the JSON log formatter (JsonFormatter), its value *)
(* encoder (JsonEncoder) and the extras merge (merge_record_extra).        *)
(*                                                                         *)
(* Python values are string tokens: "None" is None, "" the empty string,   *)
(* "dt:1" the datetime built from creation time "1", "iso:1" its isoformat *)
(* text, "dtstr:1" its str(), "ei:E1" an exc_info triple, "exctext:ei:E1"  *)
(* its formatted text, "<msg>" a reference to the record's msg object.     *)
(* A dict is a sequence of <<key, value>> pairs with unique keys, in       *)
(* insertion order.                                                        *)
(***************************************************************************)
EXTENDS Integers, Sequences, FiniteSets, TLC

VARIABLES
    _style,            \* self._style: "%", "{" or "$"
    _fmt,              \* self._fmt: the template, a sequence of text chunks
    template,          \* the template as the caller composed it (pieces)
    rename_fields,     \* self.rename_fields
    static_fields,     \* self.static_fields
    reserved_attrs,    \* self.reserved_attrs
    timestamp,         \* self.timestamp: "False", "True" or a key name
    prefix,            \* self.prefix
    json_hooks,        \* caller's json_default / json_encoder: "none", "default_str", "encoder_plain"
    json_encoder,      \* self.json_encoder after __init__: "JsonEncoder", "JSONEncoder" or "None"
    _required_fields,  \* self._required_fields
    _skip_fields,      \* self._skip_fields (the keys of the identity mapping)
    config0,           \* the instance state as __init__ left it
    phase,             \* position of the sequential caller
    record,            \* the log record being handled
    pre_record,        \* the record as it was when format was last entered
    message_dict,      \* format's message_dict when it called add_fields
    stages,            \* the output object after each step of add_fields
    log_record,        \* the output object handed to the serializer
    result,            \* what format returned (or that it raised)
    nformats,          \* how many times the record was formatted
    frames,            \* per thread: the locals of its format call
    pcs,               \* per thread: its position inside format
    objs,              \* values still to be handed to JsonEncoder.default
    encoded            \* outcomes of the JsonEncoder.default calls so far

vars == <<_style, _fmt, template, rename_fields, static_fields, reserved_attrs,
          timestamp, prefix, json_hooks, json_encoder, _required_fields,
          _skip_fields, config0, phase, record, pre_record, message_dict,
          stages, log_record, result, nformats, frames, pcs, objs, encoded>>

configVars == <<_style, _fmt, template, rename_fields, static_fields,
                reserved_attrs, timestamp, prefix, json_hooks, json_encoder,
                _required_fields, _skip_fields, config0>>
seqVars == <<phase, record, pre_record, message_dict, stages, log_record,
             result, nformats>>
concVars == <<frames, pcs>>
encVars == <<objs, encoded>>

-----------------------------------------------------------------------------
(* Bounds *)

MaxFormats == 2     \* handlers formatting the same record
MaxPieces == 2      \* pieces of a template in the parse specification
MaxObjs == 2        \* values encoded in one serialization
NumThreads == 2     \* threads calling format on one instance

-----------------------------------------------------------------------------
(* Python dict operations *)

DictKeys(d) == {d[i][1] : i \in DOMAIN d}

DictHas(d, k) == k \in DictKeys(d)

DictGet(d, k) ==
    IF DictHas(d, k) THEN d[CHOOSE i \in DOMAIN d : d[i][1] = k][2] ELSE "None"

DictSet(d, k, v) ==
    IF DictHas(d, k)
    THEN [i \in DOMAIN d |-> IF d[i][1] = k THEN <<k, v>> ELSE d[i]]
    ELSE Append(d, <<k, v>>)

RECURSIVE DictUpdate(_, _)
DictUpdate(d, other) ==
    IF other = <<>> THEN d
    ELSE DictUpdate(DictSet(d, Head(other)[1], Head(other)[2]), Tail(other))

KeyOrder(d) == [i \in DOMAIN d |-> d[i][1]]

Truthy(v) == v \notin {"None", "", "False"}

-----------------------------------------------------------------------------
(* RESERVED_ATTRS and key predicates *)

RESERVED_ATTRS ==
    <<"args", "asctime", "created", "exc_info", "exc_text", "filename",
      "funcName", "levelname", "levelno", "lineno", "module",
      "msecs", "message", "msg", "name", "pathname", "process",
      "processName", "relativeCreated", "stack_info", "thread", "threadName">>

SeqToSet(s) == {s[i] : i \in DOMAIN s}

\* key.startswith('_') over the keys the model uses
StartsWithUnderscore(key) == key \in {"_priv"}

-----------------------------------------------------------------------------
(* JsonEncoder *)

\* the values json cannot encode natively; every other token is a str or None
Objects ==
    {"dt:1", "dt:2", "date:d", "tbobj:E1", "exc:ok", "exc:badstr",
     "cls:Exc", "obj:custom", "obj:badstr"}

IsDateTime(obj) == obj \in {"dt:1", "dt:2", "date:d"}

IsTraceback(obj) == obj = "tbobj:E1"

IsExceptionInstance(obj) == obj \in {"exc:ok", "exc:badstr"}

TypeIsType(obj) == obj = "cls:Exc"

Returned(v) == [raises |-> FALSE, value |-> v]

Raised(e) == [raises |-> TRUE, value |-> e]

\* str(obj): an object's __str__ may itself raise
Str(obj) ==
    CASE obj = "dt:1" -> Returned("dtstr:1")
      [] obj = "dt:2" -> Returned("dtstr:2")
      [] obj = "date:d" -> Returned("dtstr:d")
      [] obj = "tbobj:E1" -> Returned("str:tbobj")
      [] obj = "exc:ok" -> Returned("str:exc")
      [] obj = "cls:Exc" -> Returned("str:cls")
      [] obj = "obj:custom" -> Returned("str:custom")
      [] obj \in {"exc:badstr", "obj:badstr"} -> Raised("RuntimeError")
      [] OTHER -> Returned(obj)

format_datetime_obj(obj) ==
    CASE obj = "dt:1" -> "iso:1"
      [] obj = "dt:2" -> "iso:2"
      [] OTHER -> "iso:d"

format_tb(obj) == "tbtext:E1"

\* json.JSONEncoder.default: raises TypeError for every object
SuperDefault(obj) == Raised("TypeError")

Default(obj) ==
    IF IsDateTime(obj) THEN Returned(format_datetime_obj(obj))
    ELSE IF IsTraceback(obj) THEN Returned(format_tb(obj))
    ELSE IF IsExceptionInstance(obj) \/ TypeIsType(obj) THEN Str(obj)
    ELSE IF ~SuperDefault(obj).raises THEN SuperDefault(obj)
    ELSE IF ~Str(obj).raises THEN Str(obj)
    ELSE Returned("None")

-----------------------------------------------------------------------------
(* JsonFormatter.parse *)

\* the three style classes of lines 93-98; logging.Formatter.__init__ accepts
\* no other style, so the ValueError of line 100 is not reached
Opener(style) ==
    CASE style = "$" -> <<"$", "{">>
      [] style = "{" -> <<"{">>
      [] style = "%" -> <<"%", "(">>

Closer(style) == IF style = "%" THEN ")" ELSE "}"

OpensAt(fmt, style, s) ==
    /\ s + Len(Opener(style)) - 1 <= Len(fmt)
    /\ SubSeq(fmt, s, s + Len(Opener(style)) - 1) = Opener(style)

\* a greedy group, (.+): it runs to the last closer
GroupEnd_greedy(fmt, style, s) ==
    LET g == s + Len(Opener(style))
        ends == {e \in (g + 1)..Len(fmt) : fmt[e] = Closer(style)}
    IN IF OpensAt(fmt, style, s) /\ ends # {}
       THEN CHOOSE e \in ends : \A e2 \in ends : e >= e2
       ELSE 0

\* (.+?) then the closer: the group takes at least one chunk and stops at the
\* first closer after it; 0 when the pattern does not match at s
GroupEnd(fmt, style, s) ==
    LET g == s + Len(Opener(style))
        ends == {e \in (g + 1)..Len(fmt) : fmt[e] = Closer(style)}
    IN IF OpensAt(fmt, style, s) /\ ends # {}
       THEN CHOOSE e \in ends : \A e2 \in ends : e <= e2
       ELSE 0

RECURSIVE Join(_)
Join(chunks) == IF chunks = <<>> THEN "" ELSE Head(chunks) \o Join(Tail(chunks))

RECURSIVE FindAll(_, _, _)
FindAll(fmt, style, s) ==
    IF s > Len(fmt) THEN <<>>
    ELSE IF GroupEnd(fmt, style, s) = 0 THEN FindAll(fmt, style, s + 1)
    ELSE <<Join(SubSeq(fmt, s + Len(Opener(style)), GroupEnd(fmt, style, s) - 1))>>
         \o FindAll(fmt, style, GroupEnd(fmt, style, s) + 1)

Parse(style, fmt) == IF fmt # <<>> THEN FindAll(fmt, style, 1) ELSE <<>>

SkipFields(required, reserved) == SeqToSet(required) \cup SeqToSet(reserved)

\* __init__ lines 76-77: JsonEncoder is installed only without caller hooks
InstalledEncoder(hooks) ==
    CASE hooks = "none" -> "JsonEncoder"
      [] hooks = "encoder_plain" -> "JSONEncoder"
      [] OTHER -> "None"

-----------------------------------------------------------------------------
(* Services of logging.Formatter and logging.LogRecord that format relies on *)

\* record.getMessage() with no args: str(msg)
getMessage(msg) == msg.text

formatTime(created) == "asctime:" \o created

formatException(ei) == "exctext:" \o ei

\* logging.Formatter.formatStack returns the text it is given
formatStack(stack_info) == stack_info

\* datetime.fromtimestamp(created, tz=timezone.utc)
FromTimestamp(created) == "dt:" \o created

-----------------------------------------------------------------------------
(* merge_record_extra *)

\* a merge that tests only the underscore
RECURSIVE merge_record_extra_noskip(_, _, _)
merge_record_extra_noskip(items, target, reserved) ==
    IF items = <<>> THEN target
    ELSE IF ~StartsWithUnderscore(Head(items)[1])
         THEN merge_record_extra_noskip(
                  Tail(items), DictSet(target, Head(items)[1], Head(items)[2]), reserved)
         ELSE merge_record_extra_noskip(Tail(items), target, reserved)

RECURSIVE merge_record_extra(_, _, _)
merge_record_extra(items, target, reserved) ==
    IF items = <<>> THEN target
    ELSE LET key == Head(items)[1]
             value == Head(items)[2]
         IN IF key \notin reserved /\ ~StartsWithUnderscore(key)
            THEN merge_record_extra(Tail(items), DictSet(target, key, value), reserved)
            ELSE merge_record_extra(Tail(items), target, reserved)

-----------------------------------------------------------------------------
(* JsonFormatter.add_fields *)

\* a placing of the fields that ignores the rename map
FieldKey_norename(field) == field

\* the key a template field is stored under (lines 109-112)
FieldKey(field) ==
    IF DictHas(rename_fields, field) THEN DictGet(rename_fields, field) ELSE field

RECURSIVE AddRequiredFields(_, _, _)
AddRequiredFields(target, fields, attrs) ==
    IF fields = <<>> THEN target
    ELSE AddRequiredFields(DictSet(target, FieldKey(Head(fields)),
                                   DictGet(attrs, Head(fields))),
                           Tail(fields), attrs)

TimestampOn == timestamp.flag \/ (timestamp.isstr /\ timestamp.key # "")

TimestampKey == IF timestamp.isstr THEN timestamp.key ELSE "timestamp"

\* an add_fields that merges the message fields before the static fields
add_fields_swapped(target, rec, md) ==
    LET a == AddRequiredFields(target, _required_fields, rec.attrs)
        b == DictUpdate(a, md)
        c == DictUpdate(b, static_fields)
        d == merge_record_extra(rec.attrs, c, _skip_fields)
        e == IF TimestampOn
             THEN DictSet(d, TimestampKey, FromTimestamp(DictGet(rec.attrs, "created")))
             ELSE d
    IN [fields |-> a, static |-> b, message |-> c, extras |-> d, final |-> e]

\* the output object after each step of add_fields
add_fields(target, rec, md) ==
    LET a == AddRequiredFields(target, _required_fields, rec.attrs)
        b == DictUpdate(a, static_fields)
        c == DictUpdate(b, md)
        d == merge_record_extra(rec.attrs, c, _skip_fields)
        e == IF TimestampOn
             THEN DictSet(d, TimestampKey, FromTimestamp(DictGet(rec.attrs, "created")))
             ELSE d
    IN [fields |-> a, static |-> b, message |-> c, extras |-> d, final |-> e]

-----------------------------------------------------------------------------
(* jsonify_log_record / serialize_log_record *)

\* what json.dumps makes of one value under the configured hooks
EncodeValue(v) ==
    IF v \notin Objects THEN Returned(v)
    ELSE IF json_encoder = "JsonEncoder" THEN Default(v)
    ELSE IF json_hooks = "default_str" THEN Str(v)
    ELSE Raised("TypeError")

serialize_log_record(lr) ==
    IF \E i \in DOMAIN lr : EncodeValue(lr[i][2]).raises
    THEN [raised |-> TRUE, prefix |-> prefix, obj |-> <<>>]
    ELSE [raised |-> FALSE, prefix |-> prefix,
          obj |-> [i \in DOMAIN lr |-> <<lr[i][1], EncodeValue(lr[i][2]).value>>]]

-----------------------------------------------------------------------------
(* JsonFormatter.format, step by step.  A frame holds the locals of one call: *)
(* the record, message_dict (a local dict, or an alias of record.msg) and the *)
(* output object.                                                             *)

NoStages == [fields |-> <<>>, static |-> <<>>, message |-> <<>>,
             extras |-> <<>>, final |-> <<>>]

NoResult == [raised |-> FALSE, prefix |-> "", obj |-> <<>>]

NewFrame(rec) ==
    [input |-> rec, record |-> rec, aliased |-> FALSE, local |-> <<>>, stages |-> NoStages,
     log_record |-> <<>>, result |-> NoResult]

MessageDict(f) == IF f.aliased THEN f.record.msg.d ELSE f.local

SetMessageDict(f, k, v) ==
    IF f.aliased THEN [f EXCEPT !.record.msg.d = DictSet(@, k, v)]
    ELSE [f EXCEPT !.local = DictSet(@, k, v)]

SetAttr(f, k, v) == [f EXCEPT !.record.attrs = DictSet(@, k, v)]

\* a message step that formats the message of a dict payload too
StepMessage_keep(f) ==
    SetAttr([f EXCEPT !.aliased = f.record.msg.isdict, !.local = <<>>],
            "message", getMessage(f.record.msg))

\* lines 135-140
StepMessage(f) ==
    IF f.record.msg.isdict
    THEN SetAttr([f EXCEPT !.aliased = TRUE], "message", "None")
    ELSE SetAttr([f EXCEPT !.aliased = FALSE, !.local = <<>>],
                 "message", getMessage(f.record.msg))

\* lines 141-142
StepAsctime(f) ==
    IF "asctime" \in SeqToSet(_required_fields)
    THEN SetAttr(f, "asctime", formatTime(DictGet(f.record.attrs, "created")))
    ELSE f

\* lines 144-145
StepExcInfo(f) ==
    IF Truthy(DictGet(f.record.attrs, "exc_info"))
       /\ ~Truthy(DictGet(MessageDict(f), "exc_info"))
    THEN SetMessageDict(f, "exc_info",
                        formatException(DictGet(f.record.attrs, "exc_info")))
    ELSE f

\* lines 146-147
StepExcText(f) ==
    IF ~Truthy(DictGet(MessageDict(f), "exc_info"))
       /\ Truthy(DictGet(f.record.attrs, "exc_text"))
    THEN SetMessageDict(f, "exc_info", DictGet(f.record.attrs, "exc_text"))
    ELSE f

\* lines 148-152: a record without the attribute raises AttributeError, swallowed
StepStack(f) ==
    IF DictHas(f.record.attrs, "stack_info")
       /\ Truthy(DictGet(f.record.attrs, "stack_info"))
       /\ ~Truthy(DictGet(MessageDict(f), "stack_info"))
    THEN SetMessageDict(f, "stack_info",
                        formatStack(DictGet(f.record.attrs, "stack_info")))
    ELSE f

\* lines 154-157
StepAddFields(f) ==
    LET st == add_fields(<<>>, f.record, MessageDict(f))
    IN [f EXCEPT !.stages = st, !.log_record = st.final]

\* line 159
StepSerialize(f) == [f EXCEPT !.result = serialize_log_record(f.log_record)]

FormatCall(rec) ==
    StepSerialize(StepAddFields(StepStack(StepExcText(StepExcInfo(
        StepAsctime(StepMessage(NewFrame(rec))))))))

-----------------------------------------------------------------------------
(* Inputs: templates, configurations and records *)

Piece(kind, name) == [kind |-> kind, name |-> name]

\* the text of one piece of a template
PieceText(p) ==
    CASE p.kind = "%" -> <<"%", "(", p.name, ")", "s">>
      [] p.kind = "{" -> <<"{", p.name, "}">>
      [] p.kind = "$" -> <<"$", "{", p.name, "}">>
      [] OTHER -> <<p.name>>

RECURSIVE Flatten(_)
Flatten(pieces) ==
    IF pieces = <<>> THEN <<>> ELSE PieceText(Head(pieces)) \o Flatten(Tail(pieces))

FormatTemplates ==
    {<<Piece("%", "message")>>,
     <<Piece("%", "levelname"), Piece("lit", " "), Piece("%", "message")>>,
     <<Piece("%", "levelname"), Piece("%", "sev")>>,
     <<Piece("%", "asctime"), Piece("%", "svc")>>}

RenameInputs ==
    {<<>>, <<<<"levelname", "sev">>>>, <<<<"levelname", "message">>>>}

StaticInputs ==
    {<<>>, <<<<"svc", "s:svc">>>>, <<<<"sev", "s:sev">>, <<"timestamp", "s:ts">>>>}

CustomReserved == <<"msg", "args", "created", "exc_info", "exc_text", "stack_info">>

ReservedInputs == {RESERVED_ATTRS, CustomReserved}

TsOff == [isstr |-> FALSE, flag |-> FALSE, key |-> ""]
TsOn == [isstr |-> FALSE, flag |-> TRUE, key |-> ""]
TsKey(k) == [isstr |-> TRUE, flag |-> FALSE, key |-> k]

TimestampInputs == {TsOff, TsOn, TsKey("svc")}

HookInputs == {"none", "default_str", "encoder_plain"}

StrMsg(text) == [isdict |-> FALSE, text |-> text, d |-> <<>>]
DictMsg(d) == [isdict |-> TRUE, text |-> "str(dict)", d |-> d]

MsgInputs ==
    {StrMsg("hello"),
     DictMsg(<<>>),
     DictMsg(<<<<"svc", "m:svc">>>>),
     DictMsg(<<<<"exc_info", "">>>>),
     DictMsg(<<<<"exc_info", "m:exc">>, <<"timestamp", "m:ts">>>>),
     DictMsg(<<<<"svc", "obj:custom">>, <<"sev", "obj:badstr">>>>)}

ExtraInputs ==
    {<<>>,
     <<<<"svc", "e:svc">>, <<"_priv", "e:priv">>>>,
     <<<<"sev", "e:sev">>, <<"timestamp", "e:ts">>>>}

\* <<exc_text, stack_info>> of a record; "absent": the attribute is not set
TextInputs ==
    {<<"None", "None">>, <<"exc_text:E0", "stack:S1">>, <<"None", "absent">>}

\* record.__dict__ as LogRecord.__init__ fills it, then the caller's extras
MakeRecord(msg, ei, et, si, created, extra) ==
    [msg |-> msg,
     attrs |-> <<<<"msg", "<msg>">>, <<"levelname", "INFO">>,
                 <<"exc_info", ei>>, <<"exc_text", et>>>>
               \o (IF si = "absent" THEN <<>> ELSE <<<<"stack_info", si>>>>)
               \o <<<<"created", created>>>>
               \o extra]

RecordInputs ==
    {MakeRecord(m, ei, ts[1], ts[2], c, x) :
        m \in MsgInputs, ei \in {"None", "ei:E1"}, ts \in TextInputs,
        c \in {"1", "2"}, x \in ExtraInputs}

NoRecord == [msg |-> StrMsg(""), attrs |-> <<>>]

-----------------------------------------------------------------------------
(* Construction *)

Config ==
    <<_style, _fmt, rename_fields, static_fields, reserved_attrs, timestamp,
      prefix, json_hooks, json_encoder, _required_fields, _skip_fields>>

\* the caller's arguments as __init__ stores them (lines 63-75)
Arguments(style, tmpl, ren, stat, res, ts, hooks, pfx) ==
    /\ _style = style
    /\ template = tmpl
    /\ _fmt = Flatten(tmpl)
    /\ rename_fields = ren
    /\ static_fields = stat
    /\ reserved_attrs = res
    /\ timestamp = ts
    /\ json_hooks = hooks
    /\ json_encoder = InstalledEncoder(hooks)
    /\ prefix = pfx

IdleSeq ==
    /\ record = NoRecord
    /\ pre_record = NoRecord
    /\ message_dict = <<>>
    /\ stages = NoStages
    /\ log_record = <<>>
    /\ result = NoResult
    /\ nformats = 0

NoThreads ==
    /\ frames = [t \in 1..NumThreads |-> NewFrame(NoRecord)]
    /\ pcs = [t \in 1..NumThreads |-> "idle"]

NoEncoding == objs = <<>> /\ encoded = <<>>

\* the formatter as __init__ leaves it
Init ==
    /\ \E tmpl \in FormatTemplates, ren \in RenameInputs, stat \in StaticInputs,
          res \in ReservedInputs, ts \in TimestampInputs, hooks \in HookInputs :
            Arguments("%", tmpl, ren, stat, res, ts, hooks, "")
    /\ _required_fields = Parse(_style, _fmt)
    /\ _skip_fields = SkipFields(_required_fields, reserved_attrs)
    /\ config0 = Config
    /\ phase = "idle"
    /\ IdleSeq
    /\ NoThreads
    /\ NoEncoding

-----------------------------------------------------------------------------
(* Sequential use: the logging framework hands a record to format *)

Emit(r) ==
    /\ phase = "idle"
    /\ phase' = "pending"
    /\ record' = r
    /\ UNCHANGED <<pre_record, message_dict, stages, log_record, result, nformats>>
    /\ UNCHANGED <<configVars, concVars, encVars>>

Format ==
    /\ phase \in {"pending", "formatted"}
    /\ nformats < MaxFormats
    /\ LET f == FormatCall(record)
       IN /\ pre_record' = record
          /\ record' = f.record
          /\ message_dict' = MessageDict(f)
          /\ stages' = f.stages
          /\ log_record' = f.log_record
          /\ result' = f.result
    /\ nformats' = nformats + 1
    /\ phase' = "formatted"
    /\ UNCHANGED <<configVars, concVars, encVars>>

Release ==
    /\ phase = "formatted"
    /\ phase' = "idle"
    /\ record' = NoRecord
    /\ pre_record' = NoRecord
    /\ message_dict' = <<>>
    /\ stages' = NoStages
    /\ log_record' = <<>>
    /\ result' = NoResult
    /\ nformats' = 0
    /\ UNCHANGED <<configVars, concVars, encVars>>

Next == (\E r \in RecordInputs : Emit(r)) \/ Format \/ Release

Spec == Init /\ [][Next]_vars

-----------------------------------------------------------------------------
(* Properties of the sequential specification *)

Formatted == phase = "formatted"

\* the attributes of r that pass the test of the extras step
ExtraKeys(r) ==
    {k \in DictKeys(r.attrs) :
        /\ k \notin SeqToSet(_required_fields) \cup SeqToSet(reserved_attrs)
        /\ ~StartsWithUnderscore(k)}

\* the output key of a template field, read off the rename map
RenamedKey(g) ==
    IF \E i \in DOMAIN rename_fields : rename_fields[i][1] = g
    THEN rename_fields[CHOOSE i \in DOMAIN rename_fields : rename_fields[i][1] = g][2]
    ELSE g

TemplateKeys == {RenamedKey(_required_fields[i]) : i \in DOMAIN _required_fields}

\* the value the template step leaves under k: that of the last field stored there
TemplateValue(k) ==
    LET is == {i \in DOMAIN _required_fields : RenamedKey(_required_fields[i]) = k}
        last == CHOOSE i \in is : \A j \in is : j <= i
    IN DictGet(record.attrs, _required_fields[last])

InjectedTimestamp == FromTimestamp(DictGet(record.attrs, "created"))

\* the value of the latest source that supplies k
LatestSourceValue(k) ==
    IF TimestampOn /\ k = TimestampKey THEN InjectedTimestamp
    ELSE IF k \in ExtraKeys(record) THEN DictGet(record.attrs, k)
    ELSE IF DictHas(message_dict, k) THEN DictGet(message_dict, k)
    ELSE IF DictHas(static_fields, k) THEN DictGet(static_fields, k)
    ELSE TemplateValue(k)

\* C1: the output object assembled by add_fields holds exactly the keys the
\* five sources supply, and under each key the value of the latest source in
\* the order template fields < static fields < message fields < extras <
\* injected timestamp.
C1_Precedence ==
    Formatted =>
        /\ DictKeys(log_record) =
              TemplateKeys \cup DictKeys(static_fields) \cup DictKeys(message_dict)
              \cup ExtraKeys(record)
              \cup (IF TimestampOn THEN {TimestampKey} ELSE {})
        /\ \A k \in DictKeys(log_record) : DictGet(log_record, k) = LatestSourceValue(k)

\* a message field has overwritten the same-named static field
C1_Witness ==
    /\ Formatted
    /\ DictGet(static_fields, "svc") = "s:svc"
    /\ DictGet(message_dict, "svc") = "m:svc"
    /\ DictGet(log_record, "svc") = "m:svc"

\* C3: for a record carrying exception info, a payload exc_info entry
\* (whatever its value) is the output's exc_info unchanged; without such an
\* entry the output's exc_info is the formatted exception text, or the
\* pre-formatted exception text when there is no exception info.
C3_ExcInfoPreserved ==
    Formatted =>
        LET ei == DictGet(pre_record.attrs, "exc_info")
            et == DictGet(pre_record.attrs, "exc_text")
            supplied == pre_record.msg.isdict /\ DictHas(pre_record.msg.d, "exc_info")
        IN /\ (Truthy(ei) /\ supplied) =>
                  DictGet(log_record, "exc_info") = DictGet(pre_record.msg.d, "exc_info")
           /\ (Truthy(ei) /\ ~supplied) =>
                  DictGet(log_record, "exc_info") = formatException(ei)
           /\ (~Truthy(ei) /\ Truthy(et) /\ ~supplied) =>
                  DictGet(log_record, "exc_info") = et

\* C4: with timestamp injection enabled, under every configuration the final
\* output holds under the timestamp key the ISO-8601 UTC string of the
\* record's creation time.
C4_TimestampIso ==
    (Formatted /\ TimestampOn) =>
        /\ ~result.raised
        /\ DictGet(result.obj, TimestampKey) = format_datetime_obj(InjectedTimestamp)

\* C5: the extras step writes no key of the skip-set (parsed template fields
\* united with the reserved attributes) and no key beginning with an
\* underscore: every such key is in the output after the step exactly when
\* it was before, with the value an earlier step placed.
C5_ReservedIsolation ==
    Formatted =>
        \A k \in DictKeys(stages.extras) \cup DictKeys(stages.message)
                 \cup DictKeys(record.attrs) :
            (k \in SeqToSet(_required_fields) \cup SeqToSet(reserved_attrs)
             \/ StartsWithUnderscore(k)) =>
                /\ DictHas(stages.extras, k) = DictHas(stages.message, k)
                /\ DictGet(stages.extras, k) = DictGet(stages.message, k)

\* a record attribute named like a template field, and an underscore
\* attribute, were both kept out by the extras step
C5_Witness ==
    /\ Formatted
    /\ DictGet(record.attrs, "svc") = "e:svc"
    /\ "svc" \in _skip_fields
    /\ DictGet(log_record, "svc") = "s:svc"
    /\ DictHas(record.attrs, "_priv")
    /\ ~DictHas(log_record, "_priv")

\* no static field, message field, extra attribute or injected timestamp uses k
NoOtherSourceUses(k) ==
    /\ ~DictHas(static_fields, k)
    /\ ~DictHas(message_dict, k)
    /\ k \notin ExtraKeys(record)
    /\ ~(TimestampOn /\ k = TimestampKey)

RenamedFieldPlaced(f) ==
    /\ DictHas(log_record, RenamedKey(f))
    /\ DictGet(log_record, RenamedKey(f)) = DictGet(record.attrs, f)
    /\ ~DictHas(log_record, f)

\* C6 as stated: every renamed template field f whose two names are used by
\* no static field, message field, extra or timestamp appears in the output
\* under rename_fields[f] with the record's value of f, and f is no key.
C6_RenameAsStated ==
    Formatted =>
        \A i \in DOMAIN _required_fields :
            LET f == _required_fields[i]
            IN (DictHas(rename_fields, f) /\ NoOtherSourceUses(f)
                /\ NoOtherSourceUses(RenamedKey(f))) => RenamedFieldPlaced(f)

\* C6 amended: the same, provided also that no template field is stored
\* under the name f and no other template field is stored under
\* rename_fields[f].
C6_RenamePrecedence ==
    Formatted =>
        \A i \in DOMAIN _required_fields :
            LET f == _required_fields[i]
            IN (/\ DictHas(rename_fields, f)
                /\ NoOtherSourceUses(f)
                /\ NoOtherSourceUses(RenamedKey(f))
                /\ \A j \in DOMAIN _required_fields :
                      LET g == _required_fields[j]
                      IN RenamedKey(g) # f /\ (g # f => RenamedKey(g) # RenamedKey(f)))
               => RenamedFieldPlaced(f)

\* levelname was renamed to sev and placed under that name only
C6_Witness ==
    /\ Formatted
    /\ "levelname" \in SeqToSet(_required_fields)
    /\ DictGet(rename_fields, "levelname") = "sev"
    /\ "sev" \notin SeqToSet(_required_fields)
    /\ NoOtherSourceUses("sev")
    /\ DictGet(log_record, "sev") = "INFO"
    /\ ~DictHas(log_record, "levelname")

\* C7: a dict message clears the record's formatted message and every key of
\* the dict is a top-level key of the output object; for any other message
\* the formatted message is computed and the only message fields are those
\* added by exception/stack enrichment.
C7_DictMessage ==
    Formatted =>
        /\ pre_record.msg.isdict =>
              /\ DictHas(record.attrs, "message")
              /\ DictGet(record.attrs, "message") = "None"
              /\ DictKeys(pre_record.msg.d) \subseteq DictKeys(log_record)
        /\ ~pre_record.msg.isdict =>
              /\ DictGet(record.attrs, "message") = getMessage(pre_record.msg)
              /\ DictKeys(message_dict) \subseteq {"exc_info", "stack_info"}

\* a dict message was formatted: its key is in the output, and the message
\* template field came out null
C7_Witness ==
    /\ Formatted
    /\ pre_record.msg.isdict
    /\ DictGet(pre_record.msg.d, "svc") = "m:svc"
    /\ DictHas(log_record, "svc")
    /\ "message" \in SeqToSet(_required_fields)
    /\ DictHas(log_record, "message")
    /\ DictGet(log_record, "message") = "None"

\* C8: after format returns, a dict message payload holds exactly the keys
\* and values it held before the call.
C8_PayloadUntouched ==
    (Formatted /\ pre_record.msg.isdict) => record.msg = pre_record.msg

-----------------------------------------------------------------------------
(* The encoder on its own: json hands JsonEncoder.default one value after *)
(* the other and stops at the first call that raises                       *)

SeqsUpTo(S, n) == UNION {[1..k -> S] : k \in 1..n}

DefaultArguments ==
    Arguments("%", <<Piece("%", "message")>>, <<>>, <<>>, RESERVED_ATTRS,
              TsOff, "none", "")

InitEncode ==
    /\ DefaultArguments
    /\ _required_fields = Parse(_style, _fmt)
    /\ _skip_fields = SkipFields(_required_fields, reserved_attrs)
    /\ config0 = Config
    /\ phase = "idle"
    /\ IdleSeq
    /\ NoThreads
    /\ objs \in SeqsUpTo(Objects, MaxObjs)
    /\ encoded = <<>>

CallDefault ==
    /\ objs # <<>>
    /\ (IF encoded = <<>> THEN TRUE ELSE ~encoded[Len(encoded)].raises)
    /\ encoded' = Append(encoded, Default(Head(objs)))
    /\ objs' = Tail(objs)
    /\ UNCHANGED <<configVars, seqVars, concVars>>

NextEncode == CallDefault

SpecEncode == InitEncode /\ [][NextEncode]_vars

\* C2: JsonEncoder.default never raises: every call returns a JSON-safe
\* value, a string or null.
C2_NeverRaises ==
    \A i \in DOMAIN encoded :
        ~encoded[i].raises /\ encoded[i].value \notin Objects

-----------------------------------------------------------------------------
(* Construction from a template: parse, then the placing of the fields *)

ParsePieces ==
    {Piece(k, n) : k \in {"%", "{", "$"}, n \in {"levelname", "message"}}
    \cup {Piece("lit", " ")}

ParseTemplates == SeqsUpTo(ParsePieces, MaxPieces)

ParseRecords ==
    {MakeRecord(StrMsg("hello"), "None", "None", "None", "1", <<>>),
     MakeRecord(DictMsg(<<<<"svc", "m:svc">>>>), "ei:E1", "None", "None", "2", <<>>)}

InitParse ==
    /\ \E style \in {"%", "{", "$"}, tmpl \in ParseTemplates,
          ren \in {<<>>, <<<<"levelname", "sev">>>>} :
            Arguments(style, tmpl, ren, <<>>, RESERVED_ATTRS, TsOff, "none", "")
    /\ _required_fields = <<>>
    /\ _skip_fields = {}
    /\ config0 = Config
    /\ phase = "new"
    /\ IdleSeq
    /\ NoThreads
    /\ NoEncoding

\* __init__ lines 79-82
Construct ==
    /\ phase = "new"
    /\ phase' = "idle"
    /\ _required_fields' = Parse(_style, _fmt)
    /\ _skip_fields' = SkipFields(_required_fields', reserved_attrs)
    /\ UNCHANGED <<_style, _fmt, template, rename_fields, static_fields,
                   reserved_attrs, timestamp, prefix, json_hooks, json_encoder>>
    /\ config0' = Config'
    /\ UNCHANGED <<record, pre_record, message_dict, stages, log_record,
                   result, nformats>>
    /\ UNCHANGED <<concVars, encVars>>

NextParse == Construct \/ (\E r \in ParseRecords : Emit(r)) \/ Format

SpecParse == InitParse /\ [][NextParse]_vars

\* a piece is a placeholder of the style when it encloses a name in the
\* style's brackets; brace style also reads the braces of a shell placeholder
IsPlaceholder(style, p) == p.kind = style \/ (style = "{" /\ p.kind = "$")

RECURSIVE PlaceholderNames(_, _)
PlaceholderNames(style, pieces) ==
    IF pieces = <<>> THEN <<>>
    ELSE (IF IsPlaceholder(style, Head(pieces)) THEN <<Head(pieces).name>> ELSE <<>>)
         \o PlaceholderNames(style, Tail(pieces))

RECURSIVE FirstAppearance(_)
FirstAppearance(names) ==
    IF names = <<>> THEN <<>>
    ELSE LET front == FirstAppearance(SubSeq(names, 1, Len(names) - 1))
             last == names[Len(names)]
         IN IF last \in SeqToSet(front) THEN front ELSE Append(front, last)

Constructed == phase # "new"

\* C10 as stated: parse returns the field names of the template's
\* placeholders in order of first appearance (each name once).
C10_FirstAppearance ==
    Constructed =>
        _required_fields = FirstAppearance(PlaceholderNames(_style, template))

\* C10 amended: parse returns one name per placeholder of the template, in
\* template order (a field named twice is returned twice), and the built-in
\* fields are placed in the output object in that order, each key at the
\* place of its first placeholder.
C10_ParseOrder ==
    /\ Constructed => _required_fields = PlaceholderNames(_style, template)
    /\ Formatted =>
          KeyOrder(stages.fields) =
              FirstAppearance([i \in DOMAIN PlaceholderNames(_style, template) |->
                                  RenamedKey(PlaceholderNames(_style, template)[i])])

\* a template naming message and then levelname was parsed and its fields
\* were placed in that order
C10_Witness ==
    /\ Formatted
    /\ PlaceholderNames(_style, template) = <<"message", "levelname">>
    /\ _required_fields = <<"message", "levelname">>
    /\ KeyOrder(stages.fields) = <<"message", "levelname">>

-----------------------------------------------------------------------------
(* Several threads calling format on one instance, each on its own record *)

Threads == 1..NumThreads

ConcRecords ==
    {MakeRecord(m, ei, "None", "stack:S1", "1", <<<<"svc", "e:svc">>>>) :
        m \in {StrMsg("hello"), DictMsg(<<<<"sev", "m:sev">>>>)},
        ei \in {"None", "ei:E1"}}

InitConc ==
    /\ \E tmpl \in {<<Piece("%", "levelname"), Piece("%", "message")>>,
                    <<Piece("%", "asctime"), Piece("%", "svc")>>},
          ts \in {TsOff, TsOn} :
            Arguments("%", tmpl, <<<<"levelname", "sev">>>>,
                      <<<<"svc", "s:svc">>>>, RESERVED_ATTRS, ts, "none", "")
    /\ _required_fields = Parse(_style, _fmt)
    /\ _skip_fields = SkipFields(_required_fields, reserved_attrs)
    /\ config0 = Config
    /\ phase = "idle"
    /\ IdleSeq
    /\ NoThreads
    /\ NoEncoding

ThreadStep(t, from, to, f) ==
    /\ pcs[t] = from
    /\ pcs' = [pcs EXCEPT ![t] = to]
    /\ frames' = [frames EXCEPT ![t] = f]

TCall(t, r) ==
    /\ ThreadStep(t, "idle", "message", NewFrame(r))
    /\ UNCHANGED <<configVars, seqVars, encVars>>

TMessage(t) ==
    /\ ThreadStep(t, "message", "asctime", StepMessage(frames[t]))
    /\ UNCHANGED <<configVars, seqVars, encVars>>

TAsctime(t) ==
    /\ ThreadStep(t, "asctime", "exc_info", StepAsctime(frames[t]))
    /\ UNCHANGED <<configVars, seqVars, encVars>>

TExcInfo(t) ==
    /\ ThreadStep(t, "exc_info", "exc_text", StepExcInfo(frames[t]))
    /\ UNCHANGED <<configVars, seqVars, encVars>>

TExcText(t) ==
    /\ ThreadStep(t, "exc_text", "stack_info", StepExcText(frames[t]))
    /\ UNCHANGED <<configVars, seqVars, encVars>>

TStack(t) ==
    /\ ThreadStep(t, "stack_info", "add_fields", StepStack(frames[t]))
    /\ UNCHANGED <<configVars, seqVars, encVars>>

\* an add_fields that merges the message fields into self.static_fields
TAddFields_onInstance(t) ==
    /\ static_fields' = DictUpdate(static_fields, MessageDict(frames[t]))
    /\ ThreadStep(t, "add_fields", "serialize", StepAddFields(frames[t]))
    /\ UNCHANGED <<_style, _fmt, template, rename_fields, reserved_attrs,
                   timestamp, prefix, json_hooks, json_encoder,
                   _required_fields, _skip_fields, config0>>
    /\ UNCHANGED <<seqVars, encVars>>

TAddFields(t) ==
    /\ ThreadStep(t, "add_fields", "serialize", StepAddFields(frames[t]))
    /\ UNCHANGED <<configVars, seqVars, encVars>>

TSerialize(t) ==
    /\ ThreadStep(t, "serialize", "done", StepSerialize(frames[t]))
    /\ UNCHANGED <<configVars, seqVars, encVars>>

NextConc ==
    \E t \in Threads :
        \/ \E r \in ConcRecords : TCall(t, r)
        \/ TMessage(t)
        \/ TAsctime(t)
        \/ TExcInfo(t)
        \/ TExcText(t)
        \/ TStack(t)
        \/ TAddFields(t)
        \/ TSerialize(t)

SpecConc == InitConc /\ [][NextConc]_vars

====
